---- MODULE Spec2Model ----
(***************************************************************************)
(* A model of hyper_array (include/hyper_array/hyper_array.hpp): the index *)
(* coefficients, index flattening, the multi-dimensional cursor of views   *)
(* and iterators, and the array's element access.                          *)
(*                                                                         *)
(* Tuples of the source (std::array, index<D>) are functions over 0..D-1,  *)
(* so that dimension numbers read as they do in the source.                *)
(***************************************************************************)
EXTENDS Integers, Sequences, FiniteSets, TLC

\* Bounds of the model: number of dimensions, length of one dimension, and
\* the magnitude of an iterator's signed step.
MaxDims == 2
MaxLen == 3
MaxDist == 2

\* The width of std::size_t in the model. The source's size_t has 64 bits;
\* the model keeps a narrower width that is still far above every length,
\* offset and product within the bounds, so that a negative index converted
\* to size_t exceeds every length as it does in the source.
SizeBits == 20

\* The addresses the allocator hands out: one more than the buffers that are
\* alive at a time, so that an allocation always has a free address and may
\* also reuse one that was released.
MaxAddress == 3

VARIABLES
    order,      \* template parameter Order of array / view / iterator
    Dimensions, \* template parameter Dimensions
    pc,         \* position of the calling program
    arr,        \* the array: _lengths, _coeffs, _size, _dataOwner
    acc,        \* the last element access through the array
    vw,         \* the view: _begin, _lengths, _size (its _array is arr)
    it,         \* the iterator: _end, _cursor (its _view is vw)
    hist,       \* how the iterator got its cursor: op, dist, prev
    visited,    \* flat offsets dereferenced by the begin()..end() loop
    order2,     \* template parameter Order of the second array / view
    arr2,       \* a second array, the other operand of a copy
    vw2,        \* a view of the second array
    it2,        \* a second iterator
    data,       \* the pointers data() returns: [arr |-> p, arr2 |-> q]
    heap        \* the buffers allocated and not released, and whether a
                \* buffer that is not allocated has been released

vars == <<order, Dimensions, pc, arr, acc, vw, it, hist, visited,
          order2, arr2, vw2, it2, data, heap>>

Orders == {"ROW_MAJOR", "COLUMN_MAJOR"}

None == [none |-> TRUE]

\* nullptr, and the pointers before any buffer is tracked
nullptr == 0

NoData == [arr |-> nullptr, arr2 |-> nullptr]

\* the heap before any buffer is tracked: buffers maps the address of each
\* allocated buffer to its number of elements
NoHeap == [buffers |-> [p \in {} |-> 0], double |-> FALSE]

\* no second array, view or iterator yet
NoOther ==
    /\ order2 = order
    /\ arr2 = None
    /\ vw2 = None
    /\ it2 = None
    /\ data = NoData
    /\ heap = NoHeap

-----------------------------------------------------------------------------
(* Tuples *)

Dims(D) == 0 .. (D - 1)

Fill(D, v) == [i \in Dims(D) |-> v]

DimOf(t) == Cardinality(DOMAIN t)

\* all tuples idx with 0 <= idx[i] < lengths[i]
ValidIndices(lengths) ==
    {idx \in [DOMAIN lengths -> 0 .. MaxLen] :
        \A i \in DOMAIN lengths : idx[i] < lengths[i]}

\* the tuples a caller may pass as lengths or as an index
Tuples(D) == [Dims(D) -> 0 .. MaxLen]

\* the index tuples a caller passes to a checked access: one below zero too
Indices(D) == [Dims(D) -> (0 - 1) .. MaxLen]

AllPositive(lengths) == \A i \in DOMAIN lengths : lengths[i] >= 1

\* ptrdiff_t division and remainder truncate toward zero
CDiv(a, b) ==
    IF (a >= 0) = (b > 0) THEN (IF a >= 0 THEN a ELSE -a) \div (IF b > 0 THEN b ELSE -b)
    ELSE -((IF a >= 0 THEN a ELSE -a) \div (IF b > 0 THEN b ELSE -b))

CMod(a, b) == a - b * CDiv(a, b)

\* static_cast<std::size_t>(x), and the conversion of a signed operand in a
\* comparison or an addition with a size_t
size_type_cast(x) == x % (2 ^ SizeBits)

-----------------------------------------------------------------------------
(* namespace internal *)

ct_plus(x, y) == x + y

ct_prod(x, y) == x * y

ApplyOp(op, x, y) == IF op = "ct_prod" THEN ct_prod(x, y) ELSE ct_plus(x, y)

RECURSIVE ct_accumulate(_, _, _, _, _)
ct_accumulate(a, first, length, initialValue, op) ==
    IF first < first + length
    THEN ApplyOp(op, a[first],
                 ct_accumulate(a, first + 1, length - 1, initialValue, op))
    ELSE initialValue

RECURSIVE ct_inner_product(_, _, _, _, _, _)
ct_inner_product(arr_1, first_1, arr_2, first_2, length, initialValue) ==
    IF first_1 < first_1 + length
    THEN ct_plus(ct_prod(arr_1[first_1], arr_2[first_2]),
                 ct_inner_product(arr_1, first_1 + 1, arr_2, first_2 + 1,
                                  length - 1, initialValue))
    ELSE initialValue

\* a fault of computeIndexCoeffs: both orders accumulate the leading lengths
computeIndexCoeffs_swapped(o, dimensionLengths) ==
    [i \in DOMAIN dimensionLengths |->
        ct_accumulate(dimensionLengths, 0, i, 1, "ct_prod")]

computeIndexCoeffs(o, dimensionLengths) ==
    LET D == DimOf(dimensionLengths)
    IN  IF o = "ROW_MAJOR"
        THEN [i \in Dims(D) |->
                ct_accumulate(dimensionLengths, i + 1, D - i - 1, 1, "ct_prod")]
        ELSE [i \in Dims(D) |->
                ct_accumulate(dimensionLengths, 0, i, 1, "ct_prod")]

\* a fault of flatten_index: the last dimension is left out of the sum
flatten_index_short(indexArray, coeffs) ==
    ct_inner_product(coeffs, 0, indexArray, 0, DimOf(coeffs) - 1, 0)

flatten_index(indexArray, coeffs) ==
    ct_inner_product(coeffs, 0, indexArray, 0, DimOf(coeffs), 0)

\* std::accumulate(first, last, init, std::multiplies) over a[first..last-1]
RECURSIVE std_accumulate(_, _, _, _)
std_accumulate(a, first, last, init) ==
    IF first = last THEN init
    ELSE std_accumulate(a, first + 1, last, init * a[first])

\* the same over reverse iterators: position r of rbegin() is a[D - 1 - r]
RECURSIVE std_accumulate_reverse(_, _, _, _)
std_accumulate_reverse(a, first, last, init) ==
    IF first = last THEN init
    ELSE std_accumulate_reverse(a, first + 1, last,
                                init * a[DimOf(a) - 1 - first])

\* a fault of compute_flat_range: the ranges are taken from the origin
compute_flat_range_from_zero(begin_, end_) ==
    std_accumulate(end_, 0, DimOf(end_), 1)

compute_flat_range(begin_, end_) ==
    LET ranges == [i \in DOMAIN begin_ |-> end_[i] - begin_[i]]
    IN  std_accumulate(ranges, 0, DimOf(ranges), 1)

\* the loop of advance_cursor_dispatch(COLUMN_MAJOR), from dimension i on
RECURSIVE advance_cursor_loop_column(_, _, _, _, _)
advance_cursor_loop_column(cursor, q, i, begin_, end_) ==
    IF i < DimOf(cursor)
    THEN LET range == end_[i] - begin_[i]
             c     == [cursor EXCEPT ![i] = @ + CMod(q, range)]
             q2    == CDiv(q, range)
         IN  IF q2 = 0 THEN c
             ELSE advance_cursor_loop_column(c, q2, i + 1, begin_, end_)
    ELSE cursor

\* the loop of advance_cursor_dispatch(ROW_MAJOR), from dimension i down
RECURSIVE advance_cursor_loop_row(_, _, _, _, _)
advance_cursor_loop_row(cursor, q, i, begin_, end_) ==
    IF i >= 0
    THEN LET range == end_[i] - begin_[i]
             c     == [cursor EXCEPT ![i] = @ + CMod(q, range)]
             q2    == CDiv(q, range)
         IN  IF q2 = 0 THEN c
             ELSE advance_cursor_loop_row(c, q2, i - 1, begin_, end_)
    ELSE cursor

\* a fault of advance_cursor_dispatch: ROW_MAJOR walks the dimensions upward
advance_cursor_dispatch_upward(o, distance_to_origin, begin_, end_) ==
    advance_cursor_loop_column(begin_, distance_to_origin, 0, begin_, end_)

\* the cursor that is distance_to_origin steps from begin_ in storage order
advance_cursor_dispatch(o, distance_to_origin, begin_, end_) ==
    IF o = "COLUMN_MAJOR"
    THEN advance_cursor_loop_column(begin_, distance_to_origin, 0, begin_, end_)
    ELSE advance_cursor_loop_row(begin_, distance_to_origin,
                                 DimOf(begin_) - 1, begin_, end_)

\* the loop of cursor_distance_to_origin_dispatch(COLUMN_MAJOR)
RECURSIVE distance_loop_column(_, _, _, _)
distance_loop_column(diff, ranges, i, d) ==
    IF i < DimOf(diff)
    THEN distance_loop_column(diff, ranges, i + 1,
                              d + diff[i] * std_accumulate(ranges, 0, i, 1))
    ELSE d

\* the loop of cursor_distance_to_origin_dispatch(ROW_MAJOR)
RECURSIVE distance_loop_row(_, _, _, _)
distance_loop_row(diff, ranges, i, d) ==
    IF i < DimOf(diff)
    THEN distance_loop_row(diff, ranges, i + 1,
                           d + diff[DimOf(diff) - 1 - i]
                               * std_accumulate_reverse(ranges, 0, i, 1))
    ELSE d

cursor_distance_to_origin_dispatch(o, diff, ranges) ==
    IF o = "COLUMN_MAJOR"
    THEN distance_loop_column(diff, ranges, 1, diff[0])
    ELSE distance_loop_row(diff, ranges, 1, diff[DimOf(diff) - 1])

\* a fault of cursor_distance_to_origin: COLUMN_MAJOR weights as ROW_MAJOR
cursor_distance_to_origin_row(o, cursor, end_) ==
    cursor_distance_to_origin_dispatch("ROW_MAJOR", cursor, end_)

\* cursor_distance_to_origin<Order>(cursor, end)
cursor_distance_to_origin(o, cursor, end_) ==
    cursor_distance_to_origin_dispatch(o, cursor, end_)

-----------------------------------------------------------------------------
(* class index *)

index_fill(D, initialValue) == Fill(D, initialValue)

index_eq(a, b) == a = b

index_ne(a, b) == a # b

\* a fault of operator<: the lexicographic order of the components
RECURSIVE index_lt_lexicographic_from(_, _, _)
index_lt_lexicographic_from(a, b, i) ==
    IF i \notin DOMAIN a THEN FALSE
    ELSE IF a[i] # b[i] THEN a[i] < b[i]
    ELSE index_lt_lexicographic_from(a, b, i + 1)

index_lt_lexicographic(a, b) == index_lt_lexicographic_from(a, b, 0)

index_lt(a, b) == \A i \in DOMAIN a : a[i] < b[i]

index_le(a, b) == \A i \in DOMAIN a : a[i] <= b[i]

index_gt(a, b) == \A i \in DOMAIN a : a[i] > b[i]

index_ge(a, b) == \A i \in DOMAIN a : a[i] >= b[i]

index_plus_scalar(a, d) == [i \in DOMAIN a |-> a[i] + d]

index_minus_scalar(a, d) == index_plus_scalar(a, -d)

index_plus(a, b) == [i \in DOMAIN a |-> a[i] + b[i]]

\* a fault of operator-(index): the operands exchanged
index_minus_exchanged(a, b) == [i \in DOMAIN a |-> b[i] - a[i]]

index_minus(a, b) == [i \in DOMAIN a |-> a[i] - b[i]]

-----------------------------------------------------------------------------
(* class array *)

\* a fault of computeDataSize: the last length is left out of the product
computeDataSize_short(dimensionLengths) ==
    ct_accumulate(dimensionLengths, 0, DimOf(dimensionLengths) - 1, 1, "ct_prod")

computeDataSize(dimensionLengths) ==
    ct_accumulate(dimensionLengths, 0, DimOf(dimensionLengths), 1, "ct_prod")

\* array(lengths, values, defaultValue): values is a function over 0..n-1
array_ctor(o, lengths, values, defaultValue) ==
    LET size == computeDataSize(lengths)
        n    == Cardinality(DOMAIN values)
    IN  [lengths   |-> lengths,
         coeffs    |-> computeIndexCoeffs(o, lengths),
         size      |-> size,
         asserted  |-> ~(n <= size),
         dataOwner |-> [k \in 0 .. (size - 1) |->
                           IF k < n THEN values[k] ELSE defaultValue]]

\* a fault of the constructor: the values are copied without the assertion
array_ctor_writes_unchecked(lengths, values) ==
    LET size == computeDataSize(lengths)
        n    == Cardinality(DOMAIN values)
    IN  (0 .. (n - 1)) \cup (n .. (size - 1))

\* the offsets from _dataOwner.get() that array(lengths, values,
\* defaultValue) writes: none when the assertion fails, else those of
\* std::copy and of std::fill
array_ctor_writes(lengths, values) ==
    LET size == computeDataSize(lengths)
        n    == Cardinality(DOMAIN values)
    IN  IF ~(n <= size) THEN {}
        ELSE (0 .. (n - 1)) \cup (IF n < size THEN n .. (size - 1) ELSE {})

\* the addresses of the heap
Addresses == 1 .. MaxAddress

\* allocateData(elementCount): new value_type[elementCount] returns the
\* address of a buffer that is not alive; d holds the buffers alive
allocateData(d) == {p \in Addresses : p # d.arr /\ p # d.arr2}

\* a fault of cloneData: the copy holds the pointer of the source
cloneData_alias(d, src) == {d[src]}

\* cloneData(), the pointer: that of a newly allocated buffer
cloneData_owner(d, src) == allocateData(d)

\* cloneData(), the contents: std::copy of size() elements of the source
cloneData(a) == [k \in 0 .. (a.size - 1) |-> a.dataOwner[k]]

\* array(const array_type& other)
array_copy_ctor(other) ==
    [lengths   |-> other.lengths,
     coeffs    |-> other.coeffs,
     size      |-> other.size,
     asserted  |-> FALSE,
     dataOwner |-> cloneData(other)]

\* array_type& operator=(const array_type& other): the members are assigned
\* in the order of the source, cloneData() last
array_copy_assign(this, other) ==
    LET t1 == [this EXCEPT !.lengths = other.lengths]
        t2 == [t1 EXCEPT !.coeffs = other.coeffs]
        t3 == [t2 EXCEPT !.size = other.size]
    IN  [t3 EXCEPT !.dataOwner = cloneData(other)]

\* array(DimensionLengths... dimensionLengths), and array(lengths, rawData)
\* with rawData == nullptr: std::make_unique value-initializes the elements
array_ctor_lengths(o, lengths) ==
    LET size == computeDataSize(lengths)
    IN  [lengths   |-> lengths,
         coeffs    |-> computeIndexCoeffs(o, lengths),
         size      |-> size,
         asserted  |-> FALSE,
         dataOwner |-> [k \in 0 .. (size - 1) |-> 0]]

\* array(array_type&& other)
array_move_ctor(other) ==
    [lengths   |-> other.lengths,
     coeffs    |-> other.coeffs,
     size      |-> other.size,
     asserted  |-> FALSE,
     dataOwner |-> other.dataOwner]

\* array_type& operator=(array_type&& other)
array_move_assign(this, other) ==
    LET t1 == [this EXCEPT !.lengths = other.lengths]
        t2 == [t1 EXCEPT !.coeffs = other.coeffs]
        t3 == [t2 EXCEPT !.size = other.size]
    IN  [t3 EXCEPT !.dataOwner = other.dataOwner]

\* the source of a move: std::move of a std::array copies it, _size is
\* copied, and the unique_ptr is left holding no buffer
array_moved_from(other) == [other EXCEPT !.dataOwner = << >>]

\* new value_type[elementCount]: the address of a buffer not allocated
operator_new(h) == {p \in Addresses : p \notin DOMAIN h.buffers}

\* the heap once n elements are allocated at p
heap_allocate(h, p, n) ==
    [h EXCEPT !.buffers = [q \in DOMAIN h.buffers \cup {p} |->
                              IF q = p THEN n ELSE h.buffers[q]]]

\* the deleter of unique_ptr: nothing for nullptr, else delete[] p
operator_delete(h, p) ==
    IF p = nullptr THEN h
    ELSE IF p \in DOMAIN h.buffers
    THEN [h EXCEPT !.buffers = [q \in DOMAIN h.buffers \ {p} |-> h.buffers[q]]]
    ELSE [h EXCEPT !.double = TRUE]

\* a fault of the move: the source keeps its pointer
unique_ptr_move_shared(d, to, src) == [d EXCEPT ![to] = d[src]]

\* _dataOwner{std::move(other._dataOwner)} and _dataOwner =
\* std::move(other._dataOwner): reset(other.release()), on the pointers d
unique_ptr_move(d, to, src) == [d EXCEPT ![src] = nullptr, ![to] = d[src]]

\* cloneData() of an array that holds no buffer and has size() > 0:
\* std::copy reads size() elements from a null pointer
cloneData_reads_null(a, p) == p = nullptr /\ a.size > 0

\* the initializer list {1, 2, ..., n}
Iota(n) == [k \in 0 .. (n - 1) |-> k + 1]

\* a fault of validateIndexRanges: the indices are tested as signed values
\* against the lengths only
array_validateIndexRanges_signed(a, indices) ==
    {i \in DOMAIN indices : indices[i] >= a.lengths[i]}

\* validateIndexRanges: the dimensions whose index is out of range; the
\* indices are cast to flat_index_type (std::size_t) before the test
array_validateIndexRanges(a, indices) ==
    LET indexArray == [i \in DOMAIN indices |-> size_type_cast(indices[i])]
    IN  {i \in DOMAIN indices :
            indexArray[i] >= a.lengths[i] \/ indexArray[i] < 0}

array_flatIndex_checkBounds(a, indices) ==
    LET indexArray == [i \in DOMAIN indices |-> size_type_cast(indices[i])]
    IN  [asserted |-> array_validateIndexRanges(a, indices) # {},
         off      |-> size_type_cast(flatten_index(indexArray, a.coeffs))]

\* a fault of operator[](Index): the index is flattened with the lengths
array_subscript_lengths(a, idx) == flatten_index(idx, a.lengths)

\* operator[](const hyper_index_type&): the offset of the element referred to
array_subscript(a, idx) == flatten_index(idx, a.coeffs)

\* operator()(indices...)
array_call(a, indices) == flatten_index(indices, a.coeffs)

\* at(indices...)
array_at(a, indices) == array_flatIndex_checkBounds(a, indices)

\* flatIndex(indices...)
array_flatIndex(a, indices) == array_flatIndex_checkBounds(a, indices)

-----------------------------------------------------------------------------
(* class view *)

\* view(array_type&)
view_ctor_array(a) ==
    [begin   |-> index_fill(DimOf(a.lengths), 0),
     lengths |-> a.lengths,
     size    |-> a.size]

\* view(array_type&, begin_, end_)
view_ctor_range(a, begin_, end_) ==
    [begin   |-> begin_,
     lengths |-> index_minus(end_, begin_),
     size    |-> compute_flat_range(begin_, end_)]

\* view(array_type&, begin_, lengths_)
view_ctor_lengths(a, begin_, lengths_) ==
    [begin   |-> begin_,
     lengths |-> lengths_,
     size    |-> std_accumulate(lengths_, 0, DimOf(lengths_), 1)]

\* operator view<value_type, Dimensions, Order, true>()
view_to_const(a, v) ==
    view_ctor_range(a, v.begin, index_plus(v.begin, v.lengths))

\* a fault of absolute_index: the view's origin is not added
view_absolute_index_relative(v, relative) == relative

\* absolute_index(const hyper_index_type& relative)
view_absolute_index(v, relative) == index_plus(v.begin, relative)

\* operator[](const hyper_index_type idx): the offset in the array's buffer
view_subscript(a, v, idx) == array_subscript(a, view_absolute_index(v, idx))

\* view::advance_cursor(cursor, distance_): cursor is an absolute index
view_advance_cursor(o, v, cursor, distance_) ==
    LET end_      == index_plus(v.begin, v.lengths)
        exhausted == index_ge(index_plus(v.begin, cursor), v.lengths)
    IN  IF exhausted /\ ~(distance_ < 0)
        THEN cursor
        ELSE LET c == IF exhausted THEN index_minus_scalar(end_, 1) ELSE cursor
                 d == IF exhausted THEN distance_ + 1 ELSE distance_
                 distance_to_origin ==
                     cursor_distance_to_origin(o, index_minus(c, v.begin),
                                               v.lengths) + d
             IN  IF distance_to_origin >= v.size THEN end_
                 ELSE IF distance_to_origin <= 0 THEN v.begin
                 ELSE advance_cursor_dispatch(o, distance_to_origin,
                                              v.begin, end_)

\* view::advance_cursor(cursor, distance_): the arguments of its call of
\* advance_cursor_dispatch, None when it returns without the call
view_advance_cursor_call(o, v, cursor, distance_) ==
    LET end_      == index_plus(v.begin, v.lengths)
        exhausted == index_ge(index_plus(v.begin, cursor), v.lengths)
    IN  IF exhausted /\ ~(distance_ < 0)
        THEN None
        ELSE LET c == IF exhausted THEN index_minus_scalar(end_, 1) ELSE cursor
                 d == IF exhausted THEN distance_ + 1 ELSE distance_
                 distance_to_origin ==
                     cursor_distance_to_origin(o, index_minus(c, v.begin),
                                               v.lengths) + d
             IN  IF distance_to_origin >= v.size THEN None
                 ELSE IF distance_to_origin <= 0 THEN None
                 ELSE [distance_to_origin |-> distance_to_origin,
                       begin |-> v.begin, end |-> end_]

\* absolute_index(const flat_index_type relative)
view_absolute_index_flat(o, v, relative) ==
    view_advance_cursor(o, v, v.begin, relative)

\* operator[](const flat_index_type idx): the offset in the array's buffer
view_subscript_flat(o, a, v, idx) ==
    array_subscript(a, view_absolute_index_flat(o, v, idx))

\* view::validateIndexRanges: the dimensions whose index is reported; the
\* first test compares idx[i] with a size_t, the second is signed
view_validateIndexRanges(v, idx) ==
    {i \in DOMAIN idx :
        \/ size_type_cast(idx[i]) >= size_type_cast(v.begin[i] + v.lengths[i])
        \/ idx[i] < 0}

\* view::at(indices...): the assertion of validateIndexRanges, and the
\* offset of the element returned when the assertion is compiled out
view_at(o, a, v, idx) ==
    LET valid == view_validateIndexRanges(v, idx) = {}
    IN  [asserted |-> ~valid,
         off      |-> IF valid THEN view_subscript(a, v, idx)
                      ELSE view_subscript_flat(o, a, v, v.size)]

\* view::operator()(indices...)
view_call(a, v, indices) == view_subscript(a, v, indices)

\* view::flatIndex(indices...). The source calls cursor_distance_to_origin
\* without its Order argument, which no call of flatIndex can deduce; the
\* model takes the view's own Order.
view_flatIndex(o, v, indices) ==
    size_type_cast(cursor_distance_to_origin(o, index_minus(indices, v.begin),
                                             v.lengths))

-----------------------------------------------------------------------------
(* class iterator *)

\* iterator(const view_type&)
iterator_ctor(v) ==
    [view |-> v, end |-> v.lengths, cursor |-> index_fill(DimOf(v.lengths), 0)]

\* iterator(const view_type&, const hyper_index_type& cursor)
iterator_ctor_cursor(v, cursor) ==
    [view |-> v, end |-> v.lengths, cursor |-> cursor]

flat_cursor(o, i) == cursor_distance_to_origin(o, i.cursor, i.end)

\* advance_cursor with one fault: "no_adjust" leaves the distance as it is
\* when stepping back from the end, "end_gt" clamps to the end only beyond
\* size, "origin_le1" clamps to the origin from distance 1 on, "origin_keep"
\* leaves the cursor where it is instead of clamping it to the origin
advance_cursor_faulty(o, i, distance_, fault) ==
    LET exhausted == index_ge(i.cursor, i.end)
    IN  IF exhausted /\ ~(distance_ < 0)
        THEN i
        ELSE LET j == IF exhausted
                      THEN [i EXCEPT !.cursor = index_minus_scalar(i.end, 1)]
                      ELSE i
                 d == IF exhausted /\ fault # "no_adjust"
                      THEN distance_ + 1 ELSE distance_
                 distance_to_origin == flat_cursor(o, j) + d
                 zero == index_fill(DimOf(j.end), 0)
             IN  IF (IF fault = "end_gt" THEN distance_to_origin > j.view.size
                     ELSE distance_to_origin >= j.view.size)
                 THEN [j EXCEPT !.cursor = j.end]
                 ELSE IF (IF fault = "origin_le1" THEN distance_to_origin <= 1
                          ELSE distance_to_origin <= 0)
                 THEN (IF fault = "origin_keep" THEN j ELSE [j EXCEPT !.cursor = zero])
                 ELSE [j EXCEPT !.cursor =
                          advance_cursor_dispatch(o, distance_to_origin, zero, j.end)]

advance_cursor_no_adjust(o, i, distance_) ==
    advance_cursor_faulty(o, i, distance_, "no_adjust")

advance_cursor_end_gt(o, i, distance_) ==
    advance_cursor_faulty(o, i, distance_, "end_gt")

advance_cursor_origin_le1(o, i, distance_) ==
    advance_cursor_faulty(o, i, distance_, "origin_le1")

advance_cursor_origin_keep(o, i, distance_) ==
    advance_cursor_faulty(o, i, distance_, "origin_keep")

\* a fault of advance_cursor: the distance added to every component
advance_cursor_scalar(o, i, distance_) ==
    [i EXCEPT !.cursor = index_plus_scalar(i.cursor, distance_)]

advance_cursor(o, i, distance_) ==
    LET exhausted == index_ge(i.cursor, i.end)
    IN  IF exhausted /\ ~(distance_ < 0)
        THEN i
        ELSE LET j == IF exhausted
                      THEN [i EXCEPT !.cursor = index_minus_scalar(i.end, 1)]
                      ELSE i
                 d == IF exhausted THEN distance_ + 1 ELSE distance_
                 distance_to_origin == flat_cursor(o, j) + d
             IN  IF distance_to_origin >= j.view.size
                 THEN [j EXCEPT !.cursor = j.end]
                 ELSE IF distance_to_origin <= 0
                 THEN [j EXCEPT !.cursor = index_fill(DimOf(j.end), 0)]
                 ELSE [j EXCEPT !.cursor =
                          advance_cursor_dispatch(o, distance_to_origin,
                                                  index_fill(DimOf(j.end), 0),
                                                  j.end)]

\* a fault of iterator::advance_cursor: no clamp at the end of the view
advance_cursor_call_unclamped(o, i, distance_) ==
    LET exhausted == index_ge(i.cursor, i.end)
        j == IF exhausted
             THEN [i EXCEPT !.cursor = index_minus_scalar(i.end, 1)] ELSE i
        d == IF exhausted THEN distance_ + 1 ELSE distance_
        distance_to_origin == flat_cursor(o, j) + d
    IN  IF (exhausted /\ ~(distance_ < 0)) \/ distance_to_origin <= 0 THEN None
        ELSE [distance_to_origin |-> distance_to_origin,
              begin |-> index_fill(DimOf(j.end), 0), end |-> j.end]

\* iterator::advance_cursor(distance_): the arguments of its call of
\* advance_cursor_dispatch, None when it returns without the call
advance_cursor_call(o, i, distance_) ==
    LET exhausted == index_ge(i.cursor, i.end)
    IN  IF exhausted /\ ~(distance_ < 0)
        THEN None
        ELSE LET j == IF exhausted
                      THEN [i EXCEPT !.cursor = index_minus_scalar(i.end, 1)]
                      ELSE i
                 d == IF exhausted THEN distance_ + 1 ELSE distance_
                 distance_to_origin == flat_cursor(o, j) + d
             IN  IF distance_to_origin >= j.view.size THEN None
                 ELSE IF distance_to_origin <= 0 THEN None
                 ELSE [distance_to_origin |-> distance_to_origin,
                       begin |-> index_fill(DimOf(j.end), 0), end |-> j.end]

\* iterator(const view_type&, const flat_index_type cursor)
iterator_ctor_flat(o, v, cursor) == advance_cursor(o, iterator_ctor(v), cursor)

\* operator*: the offset in the array's buffer of the element referred to
iterator_deref(a, i) == view_subscript(a, i.view, i.cursor)

iterator_eq(i, j) == index_eq(i.cursor, j.cursor)

iterator_ne(i, j) == ~index_eq(i.cursor, j.cursor)

\* operator<, <=, >, >=: the cursors compared as index does
iterator_lt(i, j) == index_lt(i.cursor, j.cursor)

iterator_le(i, j) == index_le(i.cursor, j.cursor)

iterator_gt(i, j) == index_gt(i.cursor, j.cursor)

iterator_ge(i, j) == index_ge(i.cursor, j.cursor)

\* operator+(const difference_type& d): a copy advanced by d
iterator_plus(o, i, d) == advance_cursor(o, i, d)

\* operator-(const this_type& other)
iterator_minus(o, i, other) == flat_cursor(o, i) - flat_cursor(o, other)

\* view::begin() and view::end()
view_begin(v) == iterator_ctor(v)

view_end(v) == iterator_ctor_cursor(v, v.lengths)

\* array::begin() .. array::end(): the offsets the pointer loop visits
array_iteration(a) == [k \in 1 .. a.size |-> k - 1]

-----------------------------------------------------------------------------
(* Construction of an array and element access through it *)

NoAccess == [op |-> "none"]

InitArr ==
    /\ order \in Orders
    /\ Dimensions \in 1 .. MaxDims
    /\ pc = "start"
    /\ arr = None
    /\ acc = NoAccess
    /\ vw = None
    /\ it = None
    /\ hist = None
    /\ visited = << >>
    /\ NoOther

\* array<T, Dimensions, Order> a{lengths, {1, 2, ..., size}}
Construct(lengths) ==
    /\ pc = "start"
    /\ arr' = array_ctor(order, lengths, Iota(computeDataSize(lengths)), 0)
    /\ pc' = "array"
    /\ UNCHANGED <<order, Dimensions, acc, vw, it, hist, visited,
                   order2, arr2, vw2, it2, data, heap>>

Element(a, off) == IF off \in DOMAIN a.dataOwner THEN a.dataOwner[off] ELSE 0

\* a.at(indices...): the bounds assertion ends the program
At(indices) ==
    /\ pc = "array"
    /\ LET r == array_at(arr, indices)
       IN  /\ acc' = [op |-> "at", idx |-> indices, asserted |-> r.asserted,
                      off |-> r.off,
                      val |-> IF r.asserted THEN 0 ELSE Element(arr, r.off)]
           /\ pc' = IF r.asserted THEN "aborted" ELSE "array"
    /\ UNCHANGED <<order, Dimensions, arr, vw, it, hist, visited,
                   order2, arr2, vw2, it2, data, heap>>

\* a.flatIndex(indices...)
FlatIndex(indices) ==
    /\ pc = "array"
    /\ LET r == array_flatIndex(arr, indices)
       IN  /\ acc' = [op |-> "flatIndex", idx |-> indices,
                      asserted |-> r.asserted, off |-> r.off, val |-> 0]
           /\ pc' = IF r.asserted THEN "aborted" ELSE "array"
    /\ UNCHANGED <<order, Dimensions, arr, vw, it, hist, visited,
                   order2, arr2, vw2, it2, data, heap>>

\* a(indices...): unchecked, the caller passes a valid index
Call(indices) ==
    /\ pc = "array"
    /\ indices \in ValidIndices(arr.lengths)
    /\ LET off == array_call(arr, indices)
       IN  acc' = [op |-> "call", idx |-> indices, asserted |-> FALSE,
                   off |-> off, val |-> Element(arr, off)]
    /\ UNCHANGED <<order, Dimensions, pc, arr, vw, it, hist, visited,
                   order2, arr2, vw2, it2, data, heap>>

\* a[Index(indices...)]: unchecked, the caller passes a valid index
Subscript(idx) ==
    /\ pc = "array"
    /\ idx \in ValidIndices(arr.lengths)
    /\ LET off == array_subscript(arr, idx)
       IN  acc' = [op |-> "subscript", idx |-> idx, asserted |-> FALSE,
                   off |-> off, val |-> Element(arr, off)]
    /\ UNCHANGED <<order, Dimensions, pc, arr, vw, it, hist, visited,
                   order2, arr2, vw2, it2, data, heap>>

NextArr ==
    \/ pc = "start" /\ \E lengths \in Tuples(Dimensions) : Construct(lengths)
    \/ pc = "array" /\ \E indices \in Indices(Dimensions) : At(indices)
    \/ pc = "array" /\ \E indices \in Indices(Dimensions) : FlatIndex(indices)
    \/ pc = "array" /\ \E indices \in Tuples(Dimensions) : Call(indices)
    \/ pc = "array" /\ \E idx \in Tuples(Dimensions) : Subscript(idx)

SpecArr == InitArr /\ [][NextArr]_vars

-----------------------------------------------------------------------------
(* Views over a constructed array *)

InitView ==
    /\ order \in Orders
    /\ Dimensions \in 1 .. MaxDims
    /\ pc = "array"
    /\ \E lengths \in Tuples(Dimensions) :
           arr = array_ctor(order, lengths, Iota(computeDataSize(lengths)), 0)
    /\ acc = NoAccess
    /\ vw = None
    /\ it = None
    /\ hist = None
    /\ visited = << >>
    /\ NoOther

\* view<T, Dimensions, Order> v{a}
ViewOfArray ==
    /\ pc = "array"
    /\ vw' = view_ctor_array(arr)
    /\ hist' = [op |-> "view_array"]
    /\ pc' = "view"
    /\ UNCHANGED <<order, Dimensions, arr, acc, it, visited,
                   order2, arr2, vw2, it2, data, heap>>

\* view<T, Dimensions, Order> v{a, begin_, end_}: the caller keeps
\* 0 <= begin_ <= end_ <= a.lengths()
ViewOfRange(begin_, end_) ==
    /\ pc = "array"
    /\ \A i \in Dims(Dimensions) :
           begin_[i] <= end_[i] /\ end_[i] <= arr.lengths[i]
    /\ vw' = view_ctor_range(arr, begin_, end_)
    /\ hist' = [op |-> "view_range", begin |-> begin_, end |-> end_]
    /\ pc' = "view"
    /\ UNCHANGED <<order, Dimensions, arr, acc, it, visited,
                   order2, arr2, vw2, it2, data, heap>>

-----------------------------------------------------------------------------
(* An iterator of the view moved by arbitrary signed distances. The array  *)
(* has MaxLen elements in every dimension, so that every view shape and    *)
(* every view origin up to the bounds occurs.                              *)

InitIter ==
    /\ order \in Orders
    /\ Dimensions \in 1 .. MaxDims
    /\ pc = "array"
    /\ arr = array_ctor(order, Fill(Dimensions, MaxLen), Iota(MaxLen ^ Dimensions), 0)
    /\ acc = NoAccess
    /\ vw = None
    /\ it = None
    /\ hist = None
    /\ visited = << >>
    /\ NoOther

\* the flat positions a caller constructs an iterator at: every position
\* of the view, and one step outside it on both sides
Positions(v) == IF v = None THEN {} ELSE (0 - 1) .. (v.size + 1)

\* the distances a caller moves an iterator by
Distances == (0 - MaxDist) .. MaxDist

\* auto i = v.begin()
Begin ==
    /\ pc = "view"
    /\ it' = view_begin(vw)
    /\ hist' = [op |-> "begin", dist |-> 0, prev |-> it'.cursor, call |-> None]
    /\ pc' = "iter"
    /\ UNCHANGED <<order, Dimensions, arr, acc, vw, visited,
                   order2, arr2, vw2, it2, data, heap>>

\* auto i = v.end()
End ==
    /\ pc = "view"
    /\ it' = view_end(vw)
    /\ hist' = [op |-> "end", dist |-> 0, prev |-> it'.cursor, call |-> None]
    /\ pc' = "iter"
    /\ UNCHANGED <<order, Dimensions, arr, acc, vw, visited,
                   order2, arr2, vw2, it2, data, heap>>

\* iterator i{v, k}
FromFlat(k) ==
    /\ pc = "view"
    /\ it' = iterator_ctor_flat(order, vw, k)
    /\ hist' = [op |-> "flat", dist |-> k, prev |-> index_fill(Dimensions, 0),
                call |-> advance_cursor_call(order, iterator_ctor(vw), k)]
    /\ pc' = "iter"
    /\ UNCHANGED <<order, Dimensions, arr, acc, vw, visited,
                   order2, arr2, vw2, it2, data, heap>>

\* auto i = v.end() - n
EndMinus(n) ==
    /\ pc = "view"
    /\ it' = advance_cursor(order, view_end(vw), -n)
    /\ hist' = [op |-> "advance", dist |-> -n, prev |-> view_end(vw).cursor,
                call |-> advance_cursor_call(order, view_end(vw), -n)]
    /\ pc' = "iter"
    /\ UNCHANGED <<order, Dimensions, arr, acc, vw, visited,
                   order2, arr2, vw2, it2, data, heap>>

\* ++i
PreInc ==
    /\ pc = "iter"
    /\ it' = advance_cursor(order, it, 1)
    /\ hist' = [op |-> "advance", dist |-> 1, prev |-> it.cursor,
                call |-> advance_cursor_call(order, it, 1)]
    /\ UNCHANGED <<order, Dimensions, pc, arr, acc, vw, visited,
                   order2, arr2, vw2, it2, data, heap>>

\* --i
PreDec ==
    /\ pc = "iter"
    /\ it' = advance_cursor(order, it, -1)
    /\ hist' = [op |-> "advance", dist |-> -1, prev |-> it.cursor,
                call |-> advance_cursor_call(order, it, -1)]
    /\ UNCHANGED <<order, Dimensions, pc, arr, acc, vw, visited,
                   order2, arr2, vw2, it2, data, heap>>

\* i += d
PlusAssign(d) ==
    /\ pc = "iter"
    /\ it' = advance_cursor(order, it, d)
    /\ hist' = [op |-> "advance", dist |-> d, prev |-> it.cursor,
                call |-> advance_cursor_call(order, it, d)]
    /\ UNCHANGED <<order, Dimensions, pc, arr, acc, vw, visited,
                   order2, arr2, vw2, it2, data, heap>>

\* i -= d
MinusAssign(d) ==
    /\ pc = "iter"
    /\ it' = advance_cursor(order, it, -d)
    /\ hist' = [op |-> "advance", dist |-> -d, prev |-> it.cursor,
                call |-> advance_cursor_call(order, it, -d)]
    /\ UNCHANGED <<order, Dimensions, pc, arr, acc, vw, visited,
                   order2, arr2, vw2, it2, data, heap>>

\* v[k] with a flat index k, which absolute_index converts to a signed
\* distance from the view's origin
FlatAccess(k) ==
    /\ pc = "view"
    /\ acc' = [op |-> "view_flat", k |-> k,
               abs |-> view_absolute_index_flat(order, vw, k),
               call |-> view_advance_cursor_call(order, vw, vw.begin, k)]
    /\ pc' = "accessed"
    /\ UNCHANGED <<order, Dimensions, arr, vw, it, hist, visited,
                   order2, arr2, vw2, it2, data, heap>>

NextIter ==
    \/ ViewOfArray
    \/ pc = "array" /\ \E begin_, end_ \in Tuples(Dimensions) :
                          ViewOfRange(begin_, end_)
    \/ Begin
    \/ End
    \/ \E k \in Positions(vw) : FromFlat(k)
    \/ \E n \in Positions(vw) : EndMinus(n)
    \/ PreInc
    \/ PreDec
    \/ \E d \in Distances : PlusAssign(d)
    \/ \E d \in 0 .. MaxDist : MinusAssign(d)
    \/ \E k \in Positions(vw) : FlatAccess(k)

SpecIter == InitIter /\ [][NextIter]_vars

-----------------------------------------------------------------------------
(* The loop that walks a view from begin() to end(), dereferencing the    *)
(* iterator once per turn                                                  *)

LoopBegin ==
    /\ pc = "view"
    /\ it' = view_begin(vw)
    /\ pc' = "loop"
    /\ UNCHANGED <<order, Dimensions, arr, acc, vw, hist, visited,
                   order2, arr2, vw2, it2, data, heap>>

LoopStep ==
    /\ pc = "loop"
    /\ iterator_ne(it, view_end(vw))
    /\ visited' = Append(visited, iterator_deref(arr, it))
    /\ it' = advance_cursor(order, it, 1)
    /\ UNCHANGED <<order, Dimensions, pc, arr, acc, vw, hist,
                   order2, arr2, vw2, it2, data, heap>>

LoopExit ==
    /\ pc = "loop"
    /\ iterator_eq(it, view_end(vw))
    /\ pc' = "done"
    /\ UNCHANGED <<order, Dimensions, arr, acc, vw, it, hist, visited,
                   order2, arr2, vw2, it2, data, heap>>

NextWalk ==
    \/ ViewOfArray
    \/ pc = "array" /\ \E begin_, end_ \in Tuples(Dimensions) :
                          ViewOfRange(begin_, end_)
    \/ LoopBegin
    \/ LoopStep
    \/ LoopExit

SpecWalk == InitView /\ [][NextWalk]_vars

-----------------------------------------------------------------------------
(* Reference arithmetic, written without the source's helpers *)

\* lengths[lo] * ... * lengths[hi], 1 when lo > hi
RECURSIVE Prod(_, _, _)
Prod(t, lo, hi) == IF lo > hi THEN 1 ELSE t[lo] * Prod(t, lo + 1, hi)

\* the sum of f[i] * g[i] over the dimensions lo..hi
RECURSIVE Dot(_, _, _, _)
Dot(f, g, lo, hi) == IF lo > hi THEN 0 ELSE f[lo] * g[lo] + Dot(f, g, lo + 1, hi)

Constructed == pc \in {"array", "aborted"}

Accessed == acc.op \in {"at", "call", "subscript"} /\ ~acc.asserted

LastIndex(lengths) == [i \in DOMAIN lengths |-> lengths[i] - 1]

-----------------------------------------------------------------------------
(* Claims about the coefficients, the flattening and the element access *)

\* C1: for an array with all lengths >= 1, in either storage order,
\* flatten_index with the array's coefficients maps the valid indices
\* one-to-one onto 0..size-1: every offset is in range, no two valid
\* indices share an offset, and every offset of the range is taken; the
\* offset of every element actually accessed lies in the range.
C1_FlattenBijection ==
    (Constructed /\ AllPositive(arr.lengths)) =>
        LET V     == ValidIndices(arr.lengths)
            image == {flatten_index(idx, arr.coeffs) : idx \in V}
        IN  /\ image \subseteq 0 .. (arr.size - 1)
            /\ Cardinality(image) = Cardinality(V)
            /\ image = 0 .. (arr.size - 1)
            /\ Accessed => acc.off \in 0 .. (arr.size - 1)

\* a 2 x 3 array whose last element has been accessed
C1_Witness ==
    /\ pc = "array" /\ Dimensions = 2
    /\ arr.lengths[0] = 2 /\ arr.lengths[1] = 3
    /\ acc.op = "call" /\ acc.idx = LastIndex(arr.lengths) /\ acc.off = 5

\* C3: the coefficients of a constructed array are, for ROW_MAJOR, the
\* product of the lengths after the dimension and, for COLUMN_MAJOR, the
\* product of the lengths before it (1 for the empty product), zero-length
\* dimensions included; a 2-D array of lengths (R, C) has {C, 1} in
\* ROW_MAJOR and {1, R} in COLUMN_MAJOR.
C3_CoeffsAreProducts ==
    Constructed =>
        LET D == Dimensions
            L == arr.lengths
        IN  /\ DOMAIN arr.coeffs = Dims(D)
            /\ order = "ROW_MAJOR" =>
                   \A i \in Dims(D) : arr.coeffs[i] = Prod(L, i + 1, D - 1)
            /\ order = "COLUMN_MAJOR" =>
                   \A i \in Dims(D) : arr.coeffs[i] = Prod(L, 0, i - 1)
            /\ (D = 2 /\ order = "ROW_MAJOR") =>
                   (arr.coeffs[0] = L[1] /\ arr.coeffs[1] = 1)
            /\ (D = 2 /\ order = "COLUMN_MAJOR") =>
                   (arr.coeffs[0] = 1 /\ arr.coeffs[1] = L[0])

\* a ROW_MAJOR array constructed with a zero-length last dimension
C3_Witness ==
    /\ pc = "array" /\ Dimensions = 2 /\ order = "ROW_MAJOR"
    /\ arr.lengths[0] = 2 /\ arr.lengths[1] = 0
    /\ arr.coeffs[0] = 0 /\ arr.coeffs[1] = 1

\* C4: for an array with all lengths >= 1, in either storage order, the
\* last valid index (L0-1, ..., L(D-1)-1) flattens to size - 1 and the
\* zero index flattens to 0, also when the element is actually accessed.
C4_FirstAndLastOffset ==
    (Constructed /\ AllPositive(arr.lengths)) =>
        LET last == LastIndex(arr.lengths)
            zero == Fill(Dimensions, 0)
        IN  /\ flatten_index(last, arr.coeffs) = arr.size - 1
            /\ flatten_index(zero, arr.coeffs) = 0
            /\ arr.size = Prod(arr.lengths, 0, Dimensions - 1)
            /\ (Accessed /\ acc.idx = last) => acc.off = arr.size - 1
            /\ (Accessed /\ acc.idx = zero) => acc.off = 0

\* the last element of a COLUMN_MAJOR 3 x 2 array has been accessed
C4_Witness ==
    /\ pc = "array" /\ Dimensions = 2 /\ order = "COLUMN_MAJOR"
    /\ arr.lengths[0] = 3 /\ arr.lengths[1] = 2
    /\ acc.op = "at" /\ ~acc.asserted
    /\ acc.idx = LastIndex(arr.lengths) /\ acc.off = 5

\* the (index, value) pairs of the 2 x 3 scenario, initializer {1,...,6}
RowMajorScenario ==
    {<<0, 0, 1>>, <<0, 1, 2>>, <<0, 2, 3>>, <<1, 0, 4>>, <<1, 1, 5>>, <<1, 2, 6>>}

ColumnMajorScenario ==
    {<<0, 0, 1>>, <<1, 0, 2>>, <<0, 1, 3>>, <<1, 1, 4>>, <<0, 2, 5>>, <<1, 2, 6>>}

\* C5: for an array built from lengths and an initializer sequence in
\* storage order, at(indices), operator()(indices) and operator[](Index)
\* with a valid index all refer to the buffer element at the sum of
\* coeff[i] * idx[i], which is data()[flatIndex(indices)]; ROW_MAJOR (2,3)
\* and COLUMN_MAJOR (2,3) with {1,...,6} give the values of the scenarios.
C5_AccessAtFlatOffset ==
    Accessed =>
        /\ acc.off = Dot(arr.coeffs, acc.idx, 0, Dimensions - 1)
        /\ acc.off = array_flatIndex(arr, acc.idx).off
        /\ acc.off \in DOMAIN arr.dataOwner
        /\ acc.val = arr.dataOwner[acc.off]
        /\ acc.val = acc.off + 1
        /\ (Dimensions = 2 /\ arr.lengths[0] = 2 /\ arr.lengths[1] = 3) =>
               <<acc.idx[0], acc.idx[1], acc.val>> \in
                   (IF order = "ROW_MAJOR" THEN RowMajorScenario
                    ELSE ColumnMajorScenario)

\* at(1, 0) of the COLUMN_MAJOR 2 x 3 array initialized with {1,...,6}
C5_Witness ==
    /\ pc = "array" /\ Dimensions = 2 /\ order = "COLUMN_MAJOR"
    /\ arr.lengths[0] = 2 /\ arr.lengths[1] = 3
    /\ acc.op = "at" /\ ~acc.asserted
    /\ acc.idx[0] = 1 /\ acc.idx[1] = 0 /\ acc.val = 2

-----------------------------------------------------------------------------
(* Reference positions in storage order *)

\* the stride of dimension i: the product of the lengths that vary faster
RefCoeff(o, lengths, i) ==
    IF o = "ROW_MAJOR" THEN Prod(lengths, i + 1, DimOf(lengths) - 1)
    ELSE Prod(lengths, 0, i - 1)

\* the position of idx when the box of the given lengths is enumerated with
\* the fastest-varying dimension of the order changing first
RECURSIVE RefPosFrom(_, _, _, _)
RefPosFrom(o, idx, lengths, i) ==
    IF i >= DimOf(lengths) THEN 0
    ELSE idx[i] * RefCoeff(o, lengths, i) + RefPosFrom(o, idx, lengths, i + 1)

RefPos(o, idx, lengths) == RefPosFrom(o, idx, lengths, 0)

\* the flat position of a cursor of view v: size for the one-past-end sentinel
FlatPos(o, cursor, v) ==
    IF cursor = v.lengths THEN v.size ELSE RefPos(o, cursor, v.lengths)

\* a valid position that is neither the first nor the last of the view
NonBoundary(o, cursor, v) ==
    /\ cursor \in ValidIndices(v.lengths)
    /\ 0 < RefPos(o, cursor, v.lengths)
    /\ RefPos(o, cursor, v.lengths) < v.size - 1

HasView == pc \in {"view", "iter", "loop", "done"}

Moved == pc = "iter" /\ hist.op \in {"advance", "flat"}

-----------------------------------------------------------------------------
(* Claims about the cursor of an iterator *)

\* C2: for a view with all lengths >= 1, in either storage order, the flat
\* distance and the redistribution are inverse to each other: redistributing
\* cursor_distance_to_origin(idx, lengths) with advance_cursor_dispatch
\* (begin = 0, end = lengths) gives idx back for every valid idx, and the
\* flat distance of the cursor redistributed from k is k for every k in
\* 0..size-1; so it is for the cursor of an iterator constructed at k.
C2_RoundTrip ==
    (HasView /\ AllPositive(vw.lengths)) =>
        LET L    == vw.lengths
            zero == Fill(Dimensions, 0)
        IN  /\ pc = "view" =>
                  /\ \A idx \in ValidIndices(L) :
                        advance_cursor_dispatch(order,
                            cursor_distance_to_origin(order, idx, L), zero, L) = idx
                  /\ \A k \in 0 .. (vw.size - 1) :
                        cursor_distance_to_origin(order,
                            advance_cursor_dispatch(order, k, zero, L), L) = k
            /\ (pc = "iter" /\ hist.op = "flat" /\ hist.dist \in 0 .. (vw.size - 1)) =>
                  /\ it.cursor \in ValidIndices(L)
                  /\ flat_cursor(order, it) = hist.dist
            /\ (pc = "iter" /\ it.cursor \in ValidIndices(L)) =>
                  advance_cursor_dispatch(order, flat_cursor(order, it), zero, it.end)
                      = it.cursor

\* an iterator constructed at flat position 4 of a ROW_MAJOR 2 x 3 view
C2_Witness ==
    /\ pc = "iter" /\ Dimensions = 2 /\ order = "ROW_MAJOR"
    /\ vw.lengths[0] = 2 /\ vw.lengths[1] = 3
    /\ hist.op = "flat" /\ hist.dist = 4
    /\ it.cursor[0] = 1 /\ it.cursor[1] = 1

\* C8: for a view with all lengths >= 1, an advance by a positive distance
\* that takes the flat position to size() or beyond leaves the cursor equal
\* to the one-past-end sentinel (cursor = lengths), and every advance by a
\* non-negative distance from the sentinel leaves it at the sentinel.
C8_ExhaustionSaturates ==
    (Moved /\ AllPositive(it.view.lengths)) =>
        /\ (hist.dist > 0 /\ FlatPos(order, hist.prev, it.view) + hist.dist >= it.view.size)
              => (it.cursor = it.view.lengths /\ it.cursor = it.end)
        /\ (hist.prev = it.view.lengths /\ hist.dist >= 0)
              => (it.cursor = it.view.lengths /\ it.cursor = it.end)

\* the last element of a 2 x 3 view, advanced by 2
C8_Witness ==
    /\ pc = "iter" /\ Dimensions = 2
    /\ it.view.lengths[0] = 2 /\ it.view.lengths[1] = 3
    /\ hist.op = "advance" /\ hist.dist = 2
    /\ hist.prev = LastIndex(it.view.lengths)
    /\ it.cursor = it.end

\* C9: for a view with all lengths >= 1, in either storage order, moving
\* back by n (1 <= n <= size()) from the one-past-end sentinel lands on the
\* element at flat position size() - n; moving back by one lands on the
\* last valid element (cursor = lengths - 1 in every component).
C9_BackFromSentinel ==
    (Moved /\ AllPositive(it.view.lengths) /\ hist.prev = it.view.lengths
           /\ hist.dist < 0 /\ 0 - hist.dist <= it.view.size) =>
        /\ it.cursor \in ValidIndices(it.view.lengths)
        /\ RefPos(order, it.cursor, it.view.lengths) = it.view.size + hist.dist
        /\ hist.dist = 0 - 1 => it.cursor = LastIndex(it.view.lengths)

\* end() - 4 of a COLUMN_MAJOR 2 x 3 view: flat position 2, cursor (0, 1)
C9_Witness ==
    /\ pc = "iter" /\ Dimensions = 2 /\ order = "COLUMN_MAJOR"
    /\ it.view.lengths[0] = 2 /\ it.view.lengths[1] = 3
    /\ hist.op = "advance" /\ hist.prev = it.view.lengths /\ hist.dist = 0 - 4
    /\ it.cursor[0] = 0 /\ it.cursor[1] = 1

\* C10: for an iterator at a non-boundary position of its view (flat
\* position strictly between 0 and size()-1), in either storage order,
\* a decrement followed by an increment, and an increment followed by a
\* decrement, bring the cursor back to where it was.
C10_IncDecSymmetry ==
    [][ ( /\ pc = "iter" /\ pc' = "iter"
          /\ hist.op = "advance" /\ hist'.op = "advance"
          /\ hist'.prev = it.cursor
          /\ NonBoundary(order, hist.prev, it.view)
          /\ \/ hist.dist = 0 - 1 /\ hist'.dist = 1
             \/ hist.dist = 1 /\ hist'.dist = 0 - 1 )
        => it'.cursor = hist.prev ]_vars

\* an increment has brought the cursor from the end of one row of a
\* ROW_MAJOR 3 x 3 view to a non-boundary position at the start of the next
C10_Witness ==
    /\ pc = "iter" /\ Dimensions = 2 /\ order = "ROW_MAJOR"
    /\ it.view.lengths[0] = 3 /\ it.view.lengths[1] = 3
    /\ hist.op = "advance" /\ hist.dist = 1
    /\ hist.prev[0] = 0 /\ hist.prev[1] = 2
    /\ it.cursor[0] = 1 /\ it.cursor[1] = 0
    /\ NonBoundary(order, it.cursor, it.view)

-----------------------------------------------------------------------------
(* Claims about the walk of a view *)

\* C6: for an array with all lengths >= 1 and a sub-view with
\* 0 <= begin < end <= lengths in every dimension, the loop from begin()
\* until the iterator equals end() dereferences exactly size() times, visits
\* every element of the hyper-rectangle [begin, end) exactly once and no
\* other element, in storage order (fastest-varying dimension first), and
\* leaves the array's elements as they were.
C6_SubViewWalk ==
    (pc \in {"loop", "done"} /\ AllPositive(arr.lengths) /\ AllPositive(vw.lengths)) =>
        LET R      == ValidIndices(vw.lengths)
            Off(r) == RefPos(order, [i \in DOMAIN r |-> vw.begin[i] + r[i]],
                             arr.lengths)
            seen   == {visited[k] : k \in 1 .. Len(visited)}
        IN  /\ Len(visited) <= vw.size
            /\ pc = "loop" => FlatPos(order, it.cursor, vw) = Len(visited)
            /\ pc = "done" =>
                  /\ Len(visited) = vw.size
                  /\ seen = {Off(r) : r \in R}
                  /\ Cardinality(seen) = Len(visited)
                  /\ \A r \in R :
                        visited[RefPos(order, r, vw.lengths) + 1] = Off(r)
                  /\ arr.dataOwner = Iota(arr.size)

\* the walk of the sub-view [(1,1), (3,3)) of a ROW_MAJOR 3 x 3 array
C6_Witness ==
    /\ pc = "done" /\ Dimensions = 2 /\ order = "ROW_MAJOR"
    /\ arr.lengths[0] = 3 /\ arr.lengths[1] = 3
    /\ vw.begin[0] = 1 /\ vw.begin[1] = 1
    /\ vw.lengths[0] = 2 /\ vw.lengths[1] = 2
    /\ visited = <<4, 5, 7, 8>>

-----------------------------------------------------------------------------
(* Two iterators over one view, compared and subtracted *)

\* the flat positions 0 .. size() of a view
FlatPositions(v) == IF v = None THEN {} ELSE 0 .. v.size

\* auto a = v.begin() + j; auto b = v.begin() + k;
\* then b - a, a == b, a < b, a <= b, a > b, a >= b
Compare(j, k) ==
    /\ pc = "view"
    /\ it' = iterator_plus(order, view_begin(vw), j)
    /\ it2' = iterator_plus(order, view_begin(vw), k)
    /\ acc' = [op |-> "compare", j |-> j, k |-> k,
               minus |-> iterator_minus(order, it2', it'),
               eq |-> iterator_eq(it', it2'),
               lt |-> iterator_lt(it', it2'),
               le |-> iterator_le(it', it2'),
               gt |-> iterator_gt(it', it2'),
               ge |-> iterator_ge(it', it2')]
    /\ pc' = "pair"
    /\ UNCHANGED <<order, Dimensions, arr, vw, hist, visited,
                   order2, arr2, vw2, data, heap>>

NextPair ==
    \/ ViewOfArray
    \/ pc = "array" /\ \E begin_, end_ \in Tuples(Dimensions) :
                          ViewOfRange(begin_, end_)
    \/ \E j, k \in FlatPositions(vw) : Compare(j, k)

SpecPair == InitIter /\ [][NextPair]_vars

\* C11: for two iterators a = begin() + j and b = begin() + k of one view,
\* 0 <= j, k <= size(), the difference b - a is k - j; in particular
\* end() - begin() is size(), whatever the number of dimensions.
C11_IteratorDifference ==
    pc = "pair" =>
        /\ acc.minus = acc.k - acc.j
        /\ (acc.j = 0 /\ acc.k = vw.size) =>
               (it2.cursor = view_end(vw).cursor /\ acc.minus = vw.size)

\* C12: for two iterators a and b of one view at the flat positions j and k,
\* 0 <= j, k <= size(), a < b iff j < k, a <= b iff j <= k, a > b iff j > k,
\* a >= b iff j >= k, and exactly one of a < b, a == b, a > b holds.
C12_IteratorOrdering ==
    pc = "pair" =>
        /\ acc.lt <=> (acc.j < acc.k)
        /\ acc.le <=> (acc.j <= acc.k)
        /\ acc.gt <=> (acc.j > acc.k)
        /\ acc.ge <=> (acc.j >= acc.k)
        /\ Cardinality({x \in {"lt", "eq", "gt"} : acc[x]}) = 1

-----------------------------------------------------------------------------
(* The constructors of a view and its conversion to a const view *)

\* view<T, Dimensions, Order> v{a, begin_, lengths_}: the caller keeps the
\* hyper-rectangle inside the array
ViewOfLengths(begin_, lengths_) ==
    /\ pc = "array"
    /\ \A i \in Dims(Dimensions) : begin_[i] + lengths_[i] <= arr.lengths[i]
    /\ vw' = view_ctor_lengths(arr, begin_, lengths_)
    /\ hist' = [op |-> "view_lengths", begin |-> begin_, lengths |-> lengths_]
    /\ pc' = "view"
    /\ UNCHANGED <<order, Dimensions, arr, acc, it, visited,
                   order2, arr2, vw2, it2, data, heap>>

\* view<T, Dimensions, Order, true> cv = v
ToConst ==
    /\ pc = "view"
    /\ vw' = view_to_const(arr, vw)
    /\ hist' = [op |-> "to_const", from |-> vw]
    /\ UNCHANGED <<order, Dimensions, pc, arr, acc, it, visited,
                   order2, arr2, vw2, it2, data, heap>>

NextView ==
    \/ ViewOfArray
    \/ pc = "array" /\ \E begin_, end_ \in Tuples(Dimensions) :
                          ViewOfRange(begin_, end_)
    \/ pc = "array" /\ \E begin_, lengths_ \in Tuples(Dimensions) :
                          ViewOfLengths(begin_, lengths_)
    \/ ToConst

SpecView == InitView /\ [][NextView]_vars

\* C13: every constructor of a view leaves size() equal to the product of
\* lengths(): view(array) has the zero index as begin, the array's lengths
\* and the array's size; view(array, begin, end) has lengths end - begin in
\* every component; view(array, begin, lengths) has the lengths given; and
\* the conversion to a const view keeps begin, lengths and size.
C13_ViewConstructors ==
    pc = "view" =>
        /\ vw.size = Prod(vw.lengths, 0, Dimensions - 1)
        /\ hist.op = "view_array" =>
               /\ vw.begin = Fill(Dimensions, 0)
               /\ vw.lengths = arr.lengths
               /\ vw.size = arr.size
        /\ hist.op = "view_range" =>
               /\ vw.begin = hist.begin
               /\ \A i \in Dims(Dimensions) :
                      vw.lengths[i] = hist.end[i] - hist.begin[i]
        /\ hist.op = "view_lengths" =>
               /\ vw.begin = hist.begin
               /\ vw.lengths = hist.lengths
        /\ hist.op = "to_const" =>
               /\ vw.begin = hist.from.begin
               /\ vw.lengths = hist.from.lengths
               /\ vw.size = hist.from.size

\* a 2 x 2 sub-view with begin (1, 1) of a 3 x 3 array, converted to const
C13_Witness ==
    /\ pc = "view" /\ Dimensions = 2
    /\ arr.lengths[0] = 3 /\ arr.lengths[1] = 3
    /\ hist.op = "to_const"
    /\ vw.begin[0] = 1 /\ vw.begin[1] = 1
    /\ vw.lengths[0] = 2 /\ vw.lengths[1] = 2 /\ vw.size = 4

-----------------------------------------------------------------------------
(* Element access through a view *)

\* v[k] with a flat index, and *(v.begin() + k) beside it
ViewFlat(k) ==
    /\ pc = "view"
    /\ LET abs == view_absolute_index_flat(order, vw, k)
           off == view_subscript_flat(order, arr, vw, k)
           i   == iterator_plus(order, view_begin(vw), k)
       IN  acc' = [op |-> "view_flat", k |-> k, abs |-> abs, off |-> off,
                   val |-> Element(arr, off),
                   cursor |-> i.cursor, deref |-> iterator_deref(arr, i)]
    /\ UNCHANGED <<order, Dimensions, pc, arr, vw, it, hist, visited,
                   order2, arr2, vw2, it2, data, heap>>

\* v.at(indices...): the assertion ends the program
ViewAt(indices) ==
    /\ pc = "view"
    /\ LET r == view_at(order, arr, vw, indices)
       IN  /\ acc' = [op |-> "view_at", idx |-> indices,
                      asserted |-> r.asserted, off |-> r.off,
                      val |-> Element(arr, r.off)]
           /\ pc' = IF r.asserted THEN "aborted" ELSE "view"
    /\ UNCHANGED <<order, Dimensions, arr, vw, it, hist, visited,
                   order2, arr2, vw2, it2, data, heap>>

\* v.flatIndex(indices...) beside v(indices...), for a valid view-relative
\* index
ViewFlatIndex(indices) ==
    /\ pc = "view"
    /\ indices \in ValidIndices(vw.lengths)
    /\ LET off == view_call(arr, vw, indices)
       IN  acc' = [op |-> "view_flatIndex", idx |-> indices,
                   flat |-> view_flatIndex(order, vw, indices),
                   off |-> off, val |-> Element(arr, off)]
    /\ UNCHANGED <<order, Dimensions, pc, arr, vw, it, hist, visited,
                   order2, arr2, vw2, it2, data, heap>>

NextViewAccess ==
    \/ ViewOfArray
    \/ pc = "array" /\ \E begin_, end_ \in Tuples(Dimensions) :
                          ViewOfRange(begin_, end_)
    \/ \E k \in FlatPositions(vw) : ViewFlat(k)
    \/ pc = "view" /\ \E indices \in Indices(Dimensions) : ViewAt(indices)
    \/ pc = "view" /\ \E indices \in Tuples(Dimensions) :
                         ViewFlatIndex(indices)

SpecViewAccess == InitView /\ [][NextViewAccess]_vars

\* the offsets in the array's buffer of the elements of view v
ViewOffsets(o, a, v) ==
    {RefPos(o, [i \in DOMAIN r |-> v.begin[i] + r[i]], a.lengths) :
        r \in ValidIndices(v.lengths)}

\* C14: for every view, whole-array or sub-view with any begin inside the
\* array, and every k in 0..size()-1, v[k] with a flat index refers to the
\* element *(v.begin() + k) refers to: the one whose absolute index is
\* begin plus the view-relative cursor k steps from the origin.
C14_ViewFlatAccess ==
    (pc = "view" /\ acc.op = "view_flat" /\ acc.k \in 0 .. (vw.size - 1)) =>
        /\ acc.abs = index_plus(vw.begin, acc.cursor)
        /\ acc.off = acc.deref
        /\ RefPos(order, acc.cursor, vw.lengths) = acc.k

\* C15: v.at(indices) reports the index as a failure exactly when some
\* component lies outside [begin_i, begin_i + length_i), and otherwise
\* returns an element of the view.
C15_ViewAtBounds ==
    acc.op = "view_at" =>
        LET outside == {i \in Dims(Dimensions) :
                           \/ acc.idx[i] < vw.begin[i]
                           \/ acc.idx[i] >= vw.begin[i] + vw.lengths[i]}
        IN  /\ acc.asserted <=> (outside # {})
            /\ ~acc.asserted => acc.off \in ViewOffsets(order, arr, vw)

\* C16: for every valid view-relative index, v.flatIndex(indices) is the
\* flat offset of the element v(indices) and v[Index(indices)] refer to,
\* for sub-views with a non-zero begin as for whole-array views.
C16_ViewFlatIndex ==
    acc.op = "view_flatIndex" =>
        /\ acc.flat = acc.off
        /\ acc.flat = view_subscript(arr, vw, acc.idx)

-----------------------------------------------------------------------------
(* Assignment of a view to a view: this = vw2 over arr2, other = vw over   *)
(* arr. std::copy(other.begin(), other.end(), begin()) runs over random-   *)
(* access iterators, for which the library either counts last - first      *)
(* copies or loops until first == last.                                    *)

CopyLoops == {"count", "compare"}

\* array<T2, D2, Order2> b{lengths2} filled with zeros; view vb{b}
Destination(o2, lengths2) ==
    /\ pc = "view"
    /\ order2' = o2
    /\ arr2' = array_ctor(o2, lengths2, Iota(0), 0)
    /\ vw2' = view_ctor_array(arr2')
    /\ pc' = "views"
    /\ UNCHANGED <<order, Dimensions, arr, acc, vw, it, hist, visited,
                   it2, data, heap>>

\* vb = va: the size assertion, then first = other.begin(),
\* last = other.end(), result = begin()
AssignBegin(loop) ==
    /\ pc = "views"
    /\ IF vw.size # vw2.size
       THEN /\ pc' = "aborted"
            /\ UNCHANGED <<acc, it, it2, heap>>
       ELSE /\ pc' = "copy"
            /\ it' = view_begin(vw)
            /\ it2' = view_begin(vw2)
            /\ acc' = [op |-> "copy", loop |-> loop,
                       n |-> iterator_minus(order, view_end(vw), view_begin(vw))]
    /\ UNCHANGED <<order, Dimensions, arr, vw, hist, visited,
                   order2, arr2, vw2, data, heap>>

\* the test of the copy loop
CopyMore ==
    IF acc.loop = "count" THEN acc.n > 0 ELSE iterator_ne(it, view_end(vw))

\* *result = *first; ++first; ++result. A write outside the buffer of the
\* destination is logged and the buffer left as it is.
CopyStep ==
    /\ pc = "copy"
    /\ CopyMore
    /\ LET r == iterator_deref(arr, it)
           w == iterator_deref(arr2, it2)
       IN  /\ visited' = Append(visited, <<r, w>>)
           /\ arr2' = IF w \in DOMAIN arr2.dataOwner
                      THEN [arr2 EXCEPT !.dataOwner[w] = Element(arr, r)]
                      ELSE arr2
    /\ it' = advance_cursor(order, it, 1)
    /\ it2' = advance_cursor(order2, it2, 1)
    /\ acc' = [acc EXCEPT !.n = acc.n - 1]
    /\ UNCHANGED <<order, Dimensions, pc, arr, vw, hist, order2, vw2,
                   data, heap>>

CopyDone ==
    /\ pc = "copy"
    /\ ~CopyMore
    /\ pc' = "assigned"
    /\ UNCHANGED <<order, Dimensions, arr, acc, vw, it, hist, visited,
                   order2, arr2, vw2, it2, data, heap>>

NextAssign ==
    \/ ViewOfArray
    \/ pc = "array" /\ \E begin_, end_ \in Tuples(Dimensions) :
                          ViewOfRange(begin_, end_)
    \/ pc = "view" /\ \E o2 \in Orders, D2 \in 1 .. MaxDims :
                         \E lengths2 \in Tuples(D2) : Destination(o2, lengths2)
    \/ \E loop \in CopyLoops : AssignBegin(loop)
    \/ CopyStep
    \/ CopyDone

SpecAssign == InitIter /\ [][NextAssign]_vars

\* the offset in a's buffer of the k-th element (k = 0, 1, ...) of view v
\* in the iteration order of v
KthOffset(o, a, v, k) ==
    LET c == CHOOSE x \in ValidIndices(v.lengths) : RefPos(o, x, v.lengths) = k
    IN  RefPos(o, [i \in DOMAIN c |-> v.begin[i] + c[i]], a.lengths)

\* C17: assigning a view to a view of equal size(), whatever the shapes,
\* storage orders and numbers of dimensions, performs exactly size()
\* element copies; the k-th copy reads the k-th element of the source in
\* the source's iteration order and writes the k-th element of the
\* destination in the destination's order; nothing outside the source view
\* is read and nothing outside the destination view is written. Stated for
\* views whose lengths are all >= 1.
C17_ReshapeCopy ==
    (pc \in {"copy", "assigned"} /\ AllPositive(vw.lengths)
                                 /\ AllPositive(vw2.lengths)) =>
        /\ Len(visited) <= vw.size
        /\ \A k \in 1 .. Len(visited) :
              /\ visited[k][1] = KthOffset(order, arr, vw, k - 1)
              /\ visited[k][2] = KthOffset(order2, arr2, vw2, k - 1)
        /\ pc = "assigned" =>
              /\ Len(visited) = vw.size
              /\ \A k \in 0 .. (vw.size - 1) :
                    arr2.dataOwner[KthOffset(order2, arr2, vw2, k)] =
                        arr.dataOwner[KthOffset(order, arr, vw, k)]

-----------------------------------------------------------------------------
(* Claims about the checked access and the construction of an array *)

\* C18: a.at(indices) and a.flatIndex(indices) raise the bounds assertion
\* exactly when some component lies outside [0, length_i), negative
\* components included, and never for a valid index tuple; the contents of
\* the array are unchanged when the assertion is raised.
C18_CheckedAccess ==
    (Constructed /\ acc.op \in {"at", "flatIndex"}) =>
        LET outside == {i \in Dims(Dimensions) :
                           acc.idx[i] < 0 \/ acc.idx[i] >= arr.lengths[i]}
        IN  /\ acc.asserted <=> (outside # {})
            /\ acc.asserted <=> (pc = "aborted")
            /\ acc.idx \in ValidIndices(arr.lengths) <=> ~acc.asserted
            /\ ~acc.asserted => acc.off = Dot(arr.coeffs, acc.idx, 0, Dimensions - 1)
            /\ arr.dataOwner = Iota(arr.size)

\* at(1, -1) on a 2 x 3 array has raised the assertion
C18_Witness ==
    /\ pc = "aborted" /\ Dimensions = 2
    /\ arr.lengths[0] = 2 /\ arr.lengths[1] = 3
    /\ acc.op = "at" /\ acc.asserted
    /\ acc.idx[0] = 1 /\ acc.idx[1] = 0 - 1

\* the default values a caller passes
DefaultValues == {0, 0 - 1}

\* array<T, Dimensions, Order> a{lengths, {1, 2, ..., n}, defaultValue}: the
\* assertion on the number of values ends the program
ConstructInit(lengths, n, defaultValue) ==
    /\ pc = "start"
    /\ arr' = array_ctor(order, lengths, Iota(n), defaultValue)
    /\ acc' = [op |-> "ctor", n |-> n, defaultValue |-> defaultValue,
               written |-> array_ctor_writes(lengths, Iota(n))]
    /\ pc' = IF arr'.asserted THEN "aborted" ELSE "array"
    /\ UNCHANGED <<order, Dimensions, vw, it, hist, visited,
                   order2, arr2, vw2, it2, data, heap>>

NextCtor ==
    \E lengths \in Tuples(Dimensions) :
        \E n \in 0 .. (computeDataSize(lengths) + 1), defaultValue \in DefaultValues :
            ConstructInit(lengths, n, defaultValue)

SpecCtor == InitArr /\ [][NextCtor]_vars

\* C19: an array constructed from lengths, n initializer values and a
\* default value has, when n <= size, buffer element k equal to values[k] for
\* k < n and to the default value for n <= k < size; when n > size the
\* construction is rejected by the assertion and no element beyond the
\* buffer is written.
C19_InitializerConstruction ==
    acc.op = "ctor" =>
        /\ acc.n <= arr.size =>
              /\ pc = "array"
              /\ DOMAIN arr.dataOwner = 0 .. (arr.size - 1)
              /\ \A k \in 0 .. (arr.size - 1) :
                    arr.dataOwner[k] = IF k < acc.n THEN Iota(acc.n)[k]
                                       ELSE acc.defaultValue
              /\ acc.written = 0 .. (arr.size - 1)
        /\ acc.n > arr.size =>
              /\ pc = "aborted"
              /\ acc.written \subseteq 0 .. (arr.size - 1)

\* a 2 x 3 array of 4 values and the default -1
C19_Witness ==
    /\ pc = "array" /\ acc.op = "ctor" /\ Dimensions = 2
    /\ arr.lengths[0] = 2 /\ arr.lengths[1] = 3
    /\ acc.n = 4 /\ acc.defaultValue = 0 - 1
    /\ arr.dataOwner[3] = 4 /\ arr.dataOwner[4] = 0 - 1 /\ arr.dataOwner[5] = 0 - 1

\* the construction of a 2 x 1 array from 3 values has been rejected
C19_WitnessRejected ==
    /\ pc = "aborted" /\ acc.op = "ctor" /\ Dimensions = 2
    /\ arr.lengths[0] = 2 /\ arr.lengths[1] = 1 /\ acc.n = 3

-----------------------------------------------------------------------------
\* Copies of an array: two array objects arr and arr2, each holding the
\* pointer data.arr / data.arr2 to its buffer. A write through an object
\* changes the buffer its pointer designates, for every object holding that
\* pointer.

ArrayNames == {"arr", "arr2"}

ArrayOf(name) == IF name = "arr" THEN arr ELSE arr2

OtherName(name) == IF name = "arr" THEN "arr2" ELSE "arr"

\* the value playground.cpp writes after the assignment: bb[0] = -3
Written == 0 - 3

InitCopy ==
    /\ order \in Orders
    /\ Dimensions \in 1 .. MaxDims
    /\ pc = "array"
    /\ \E lengths \in Tuples(Dimensions) :
           arr = array_ctor(order, lengths, Iota(computeDataSize(lengths)), 0)
    /\ acc = NoAccess
    /\ vw = None
    /\ it = None
    /\ hist = None
    /\ visited = << >>
    /\ order2 = order
    /\ arr2 = None
    /\ vw2 = None
    /\ it2 = None
    /\ \E p \in allocateData(NoData) : data = [NoData EXCEPT !.arr = p]
    /\ heap = NoHeap

\* ha_type cc(l, ..., l): a second array, of zeros
ConstructOther(l) ==
    /\ pc = "array"
    /\ arr2' = array_ctor(order, Fill(Dimensions, l), Iota(0), 0)
    /\ \E p \in allocateData(data) : data' = [data EXCEPT !.arr2 = p]
    /\ pc' = "arrays"
    /\ UNCHANGED <<order, Dimensions, arr, acc, vw, it, hist, visited,
                   order2, vw2, it2, heap>>

\* const ha_type dd(cc)
CopyConstruct ==
    /\ pc = "array"
    /\ arr2' = array_copy_ctor(arr)
    /\ \E p \in cloneData_owner(data, "arr") : data' = [data EXCEPT !.arr2 = p]
    /\ acc' = [op |-> "copy_ctor", to |-> "arr2", src |-> "arr",
               from |-> arr, old |-> None]
    /\ pc' = "copied"
    /\ UNCHANGED <<order, Dimensions, arr, vw, it, hist, visited,
                   order2, vw2, it2, heap>>

\* cc = bb, in either direction between the two arrays: the new buffer is
\* allocated while both buffers are alive, then the old one is released
CopyAssign(to) ==
    /\ pc = "arrays"
    /\ LET src == OtherName(to)
           new == array_copy_assign(ArrayOf(to), ArrayOf(src))
       IN  /\ arr'  = IF to = "arr" THEN new ELSE arr
           /\ arr2' = IF to = "arr2" THEN new ELSE arr2
           /\ \E p \in cloneData_owner(data, src) : data' = [data EXCEPT ![to] = p]
           /\ acc' = [op |-> "copy_assign", to |-> to, src |-> src,
                      from |-> ArrayOf(src), old |-> ArrayOf(to)]
    /\ pc' = "copied"
    /\ UNCHANGED <<order, Dimensions, vw, it, hist, visited,
                   order2, vw2, it2, heap>>

\* aa = aa
SelfAssign ==
    /\ pc \in {"array", "arrays"}
    /\ arr' = array_copy_assign(arr, arr)
    /\ \E p \in cloneData_owner(data, "arr") : data' = [data EXCEPT !.arr = p]
    /\ acc' = [op |-> "self_assign", to |-> "arr", src |-> "arr",
               from |-> arr, old |-> arr]
    /\ pc' = "copied"
    /\ UNCHANGED <<order, Dimensions, arr2, vw, it, hist, visited,
                   order2, vw2, it2, heap>>

\* bb[off] = -3 through one of the arrays
Write(which, off) ==
    /\ pc = "copied"
    /\ ArrayOf(which) # None
    /\ off \in 0 .. (ArrayOf(which).size - 1)
    /\ arr'  = IF data.arr = data[which]
               THEN [arr EXCEPT !.dataOwner[off] = Written] ELSE arr
    /\ arr2' = IF arr2 # None /\ data.arr2 = data[which]
               THEN [arr2 EXCEPT !.dataOwner[off] = Written] ELSE arr2
    /\ hist' = [op |-> "write", which |-> which, off |-> off,
                before |-> [arr |-> arr, arr2 |-> arr2]]
    /\ pc' = "written"
    /\ UNCHANGED <<order, Dimensions, acc, vw, it, visited,
                   order2, vw2, it2, data, heap>>

NextCopy ==
    \/ \E l \in 0 .. MaxLen : ConstructOther(l)
    \/ CopyConstruct
    \/ \E to \in ArrayNames : CopyAssign(to)
    \/ SelfAssign
    \/ \E which \in ArrayNames, off \in 0 .. (MaxLen ^ MaxDims) : Write(which, off)

SpecCopy == InitCopy /\ [][NextCopy]_vars

\* C20: after a copy construction or a copy assignment the destination has
\* the lengths, the coefficients, the size and the element values of the
\* source and a buffer of its own; a later write through one of the two
\* arrays changes the element written and leaves every element of the other
\* array unchanged; a self-assignment leaves the array's contents unchanged.
C20_DeepCopy ==
    /\ (pc \in {"arrays", "copied", "written"} /\ arr2 # None) =>
           /\ data.arr # data.arr2
           /\ data.arr # nullptr /\ data.arr2 # nullptr
    /\ (pc = "copied" /\ acc.op \in {"copy_ctor", "copy_assign"}) =>
           LET dst == ArrayOf(acc.to)
               src == ArrayOf(acc.src)
           IN  /\ src = acc.from
               /\ dst.lengths = src.lengths
               /\ dst.coeffs = src.coeffs
               /\ dst.size = src.size
               /\ dst.dataOwner = src.dataOwner
    /\ (pc = "copied" /\ acc.op = "self_assign") =>
           /\ arr = acc.from
           /\ arr2 = None \/ data.arr # data.arr2
    /\ pc = "written" =>
           LET a      == ArrayOf(hist.which)
               before == hist.before[hist.which]
               other  == OtherName(hist.which)
           IN  /\ a.dataOwner[hist.off] = Written
               /\ \A k \in 0 .. (a.size - 1) :
                     k # hist.off => a.dataOwner[k] = before.dataOwner[k]
               /\ ArrayOf(other) = hist.before[other]

\* cc = bb with bb a 2 x 3 array and cc a 1 x 1 array, then cc[5] = -3:
\* bb still holds 6 at offset 5
C20_Witness ==
    /\ pc = "written" /\ Dimensions = 2
    /\ acc.op = "copy_assign" /\ acc.to = "arr2" /\ acc.old.size = 1
    /\ arr.lengths[0] = 2 /\ arr.lengths[1] = 3
    /\ arr2.lengths = arr.lengths /\ arr2.coeffs = arr.coeffs
    /\ hist.which = "arr2" /\ hist.off = 5
    /\ arr2.dataOwner[5] = Written /\ arr.dataOwner[5] = 6

-----------------------------------------------------------------------------
\* Operations on two indices a and b and a scalar d. An index has no Order;
\* the operators are const member functions that return a new index, so the
\* operands after the call are the operands before it.

IndexValues == (0 - MaxDist) .. MaxDist

IndexSpace(D) == [Dims(D) -> IndexValues]

InitIndex ==
    /\ order = "ROW_MAJOR"
    /\ Dimensions \in 1 .. MaxDims
    /\ pc = "start"
    /\ arr = None
    /\ acc = NoAccess
    /\ vw = None
    /\ it = None
    /\ hist = None
    /\ visited = << >>
    /\ NoOther

\* a == b, a != b, a < b, a <= b, a > b, a >= b
IndexCompare(a, b) ==
    /\ pc = "start"
    /\ hist' = [a |-> a, b |-> b]
    /\ acc' = [op |-> "index_compare", a |-> a, b |-> b,
               eq |-> index_eq(a, b), ne |-> index_ne(a, b),
               lt |-> index_lt(a, b), le |-> index_le(a, b),
               gt |-> index_gt(a, b), ge |-> index_ge(a, b)]
    /\ pc' = "index"
    /\ UNCHANGED <<order, Dimensions, arr, vw, it, visited,
                   order2, arr2, vw2, it2, data, heap>>

\* a + b, a - b
IndexArith(a, b) ==
    /\ pc = "start"
    /\ hist' = [a |-> a, b |-> b]
    /\ acc' = [op |-> "index_arith", a |-> a, b |-> b,
               plus |-> index_plus(a, b), minus |-> index_minus(a, b)]
    /\ pc' = "index"
    /\ UNCHANGED <<order, Dimensions, arr, vw, it, visited,
                   order2, arr2, vw2, it2, data, heap>>

\* a + d, a - d
IndexScalar(a, d) ==
    /\ pc = "start"
    /\ hist' = [a |-> a, d |-> d]
    /\ acc' = [op |-> "index_scalar", a |-> a, d |-> d,
               plus |-> index_plus_scalar(a, d),
               minus |-> index_minus_scalar(a, d)]
    /\ pc' = "index"
    /\ UNCHANGED <<order, Dimensions, arr, vw, it, visited,
                   order2, arr2, vw2, it2, data, heap>>

NextIndex ==
    \/ pc = "start" /\ \E a, b \in IndexSpace(Dimensions) : IndexCompare(a, b)
    \/ pc = "start" /\ \E a, b \in IndexSpace(Dimensions) : IndexArith(a, b)
    \/ pc = "start" /\ \E a \in IndexSpace(Dimensions), d \in IndexValues :
                          IndexScalar(a, d)

SpecIndex == InitIndex /\ [][NextIndex]_vars

\* C23: the comparison of two indices is component-wise: a < b (<=, >, >=)
\* holds iff every component of a is < (<=, >, >=) the component of b, and
\* a == b iff all components are equal, a != b otherwise; so two indices
\* with one component less and another greater are unrelated by ==, <, <=,
\* > and >=, and equal indices satisfy ==, <=, >= and none of !=, <, >.
C23_IndexComparison ==
    acc.op = "index_compare" =>
        LET a == acc.a
            b == acc.b
            D == Dims(Dimensions)
        IN  /\ acc.lt <=> \A i \in D : a[i] < b[i]
            /\ acc.le <=> \A i \in D : a[i] <= b[i]
            /\ acc.gt <=> \A i \in D : a[i] > b[i]
            /\ acc.ge <=> \A i \in D : a[i] >= b[i]
            /\ acc.eq <=> \A i \in D : a[i] = b[i]
            /\ acc.ne <=> ~acc.eq
            /\ ((\E i \in D : a[i] < b[i]) /\ (\E i \in D : a[i] > b[i])) =>
                   (~acc.eq /\ ~acc.lt /\ ~acc.le /\ ~acc.gt /\ ~acc.ge /\ acc.ne)
            /\ a = b =>
                   (acc.eq /\ acc.le /\ acc.ge /\ ~acc.ne /\ ~acc.lt /\ ~acc.gt)

\* (-2, 1) and (2, -1) are different and unrelated
C23_Witness ==
    /\ pc = "index" /\ acc.op = "index_compare" /\ Dimensions = 2
    /\ acc.a[0] = 0 - 2 /\ acc.a[1] = 1
    /\ acc.b[0] = 2 /\ acc.b[1] = 0 - 1
    /\ acc.ne /\ ~acc.eq /\ ~acc.lt /\ ~acc.le /\ ~acc.gt /\ ~acc.ge

\* C24: idx + d and idx - d add and subtract the scalar d in every
\* component, a + b and a - b are component-wise, and the operands are left
\* unchanged.
C24_IndexArithmetic ==
    /\ acc.op = "index_scalar" =>
           /\ DOMAIN acc.plus = Dims(Dimensions)
           /\ DOMAIN acc.minus = Dims(Dimensions)
           /\ \A i \in Dims(Dimensions) :
                 /\ acc.plus[i] = acc.a[i] + acc.d
                 /\ acc.minus[i] = acc.a[i] - acc.d
           /\ acc.a = hist.a
    /\ acc.op = "index_arith" =>
           /\ DOMAIN acc.plus = Dims(Dimensions)
           /\ DOMAIN acc.minus = Dims(Dimensions)
           /\ \A i \in Dims(Dimensions) :
                 /\ acc.plus[i] = acc.a[i] + acc.b[i]
                 /\ acc.minus[i] = acc.a[i] - acc.b[i]
           /\ acc.a = hist.a /\ acc.b = hist.b

\* (1, 2) - (-1, 2) == (2, 0) and (1, 2) + (-1, 2) == (0, 4)
C24_Witness ==
    /\ pc = "index" /\ acc.op = "index_arith" /\ Dimensions = 2
    /\ acc.a[0] = 1 /\ acc.a[1] = 2
    /\ acc.b[0] = 0 - 1 /\ acc.b[1] = 2
    /\ acc.minus[0] = 2 /\ acc.minus[1] = 0
    /\ acc.plus[0] = 0 /\ acc.plus[1] = 4

-----------------------------------------------------------------------------
(* Further claims about the cursor of an iterator *)

\* C25: for a view with all lengths >= 1, moving an iterator back by a
\* distance that takes its flat position to 0 or below leaves the cursor at
\* the origin; a further backward move from the origin leaves it there; and
\* the advance by n (1 <= n < size()) that follows from the origin lands on
\* flat position n.
C25_OriginSaturation ==
    /\ [](  (Moved /\ AllPositive(it.view.lengths)) =>
              LET zero == index_fill(Dimensions, 0)
              IN  /\ (hist.dist < 0
                         /\ FlatPos(order, hist.prev, it.view) + hist.dist <= 0)
                        => it.cursor = zero
                  /\ (hist.prev = zero /\ hist.dist < 0) => it.cursor = zero
                  /\ (hist.prev = zero /\ 1 <= hist.dist
                         /\ hist.dist < it.view.size)
                        => /\ it.cursor \in ValidIndices(it.view.lengths)
                           /\ RefPos(order, it.cursor, it.view.lengths) = hist.dist )
    /\ [][ ( /\ Moved /\ pc' = "iter" /\ hist'.op = "advance"
              /\ AllPositive(it.view.lengths)
              /\ hist.dist < 0
              /\ FlatPos(order, hist.prev, it.view) + hist.dist <= 0
              /\ hist'.prev = it.cursor )
            => /\ hist'.dist < 0 => it'.cursor = index_fill(Dimensions, 0)
               /\ (1 <= hist'.dist /\ hist'.dist < it.view.size)
                     => /\ it'.cursor \in ValidIndices(it.view.lengths)
                        /\ RefPos(order, it'.cursor, it.view.lengths) = hist'.dist
       ]_vars

\* flat position 1 of a ROW_MAJOR 2 x 3 view, moved back by 2
C25_Witness ==
    /\ pc = "iter" /\ Dimensions = 2 /\ order = "ROW_MAJOR"
    /\ it.view.lengths[0] = 2 /\ it.view.lengths[1] = 3
    /\ hist.op = "advance" /\ hist.dist = 0 - 2
    /\ hist.prev[0] = 0 /\ hist.prev[1] = 1
    /\ it.cursor[0] = 0 /\ it.cursor[1] = 0

\* advance_cursor_dispatch is called with a distance inside the view, and
\* every range it divides by is positive
DispatchInside(call, size) ==
    call # None =>
        /\ 0 < call.distance_to_origin
        /\ call.distance_to_origin < size
        /\ \A i \in DOMAIN call.end : call.end[i] - call.begin[i] > 0

\* C26: for every view, those with a zero length included, and every
\* advance of an iterator or flat access of the view by a signed distance,
\* advance_cursor_dispatch is entered only with 0 < distance_to_origin <
\* size, so every range end[i] - begin[i] it divides by is positive.
C26_NoDivisionByZero ==
    /\ Moved => DispatchInside(hist.call, it.view.size)
    /\ pc = "accessed" => DispatchInside(acc.call, vw.size)
    /\ (Moved /\ it.view.size = 0) => hist.call = None
    /\ (pc = "accessed" /\ vw.size = 0) => acc.call = None

\* the begin() of a 0 x 3 view advanced by 2: the end, without the call
C26_Witness ==
    /\ pc = "iter" /\ Dimensions = 2
    /\ it.view.lengths[0] = 0 /\ it.view.lengths[1] = 3
    /\ hist.op = "advance" /\ hist.dist = 2
    /\ hist.prev[0] = 0 /\ hist.prev[1] = 0
    /\ hist.call = None /\ it.cursor = it.end

\* C27: for a view with all lengths >= 1, after any sequence of ++, --, +=
\* and -= on an iterator obtained from begin(), end() or the flat-distance
\* constructor, the cursor is a valid view-relative index or the
\* one-past-end sentinel (cursor = lengths), never out of range in only some
\* components.
C27_CursorWellFormed ==
    (pc = "iter" /\ AllPositive(it.view.lengths)) =>
        \/ it.cursor \in ValidIndices(it.view.lengths)
        \/ it.cursor = it.view.lengths

\* position (2, 0) of a COLUMN_MAJOR 3 x 2 view advanced by 2: (1, 1)
C27_Witness ==
    /\ pc = "iter" /\ Dimensions = 2 /\ order = "COLUMN_MAJOR"
    /\ it.view.lengths[0] = 3 /\ it.view.lengths[1] = 2
    /\ hist.op = "advance" /\ hist.dist = 2
    /\ hist.prev[0] = 2 /\ hist.prev[1] = 0
    /\ it.cursor[0] = 1 /\ it.cursor[1] = 1

-----------------------------------------------------------------------------
(* Further claims about element access through a view *)

\* C28: whenever view.at(indices) passes its range validation, the element
\* returned has an absolute array index inside the view's hyper-rectangle
\* [begin, begin + lengths) and therefore inside the array, for sub-views
\* with a non-zero begin as for whole-array views.
C28_ViewAtInsideView ==
    (acc.op = "view_at" /\ ~acc.asserted) =>
        LET absolute == view_absolute_index(vw, acc.idx)
        IN  /\ \A i \in Dims(Dimensions) :
                  /\ vw.begin[i] <= absolute[i]
                  /\ absolute[i] < vw.begin[i] + vw.lengths[i]
                  /\ absolute[i] < arr.lengths[i]
            /\ acc.off \in 0 .. (arr.size - 1)

-----------------------------------------------------------------------------
(* A further claim about the walk of a view *)

\* C29: for every view whose size() is 0 (at least one dimension of length
\* 0), view.begin() == view.end(), so the loop from begin() to end()
\* dereferences no element.
C29_EmptyViewWalk ==
    (pc \in {"view", "loop", "done"} /\ vw.size = 0) =>
        /\ iterator_eq(view_begin(vw), view_end(vw))
        /\ visited = << >>

-----------------------------------------------------------------------------
\* Ownership of the buffers: two array objects arr and arr2 are constructed,
\* copied, moved, assigned and destroyed in any order. An object that does
\* not exist is None. The lengths are l in every dimension. Reading through
\* a null pointer ends the program.

Alive(name) == ArrayOf(name) # None

InitOwn ==
    /\ order \in Orders
    /\ Dimensions \in 1 .. MaxDims
    /\ pc = "main"
    /\ arr = None
    /\ acc = NoAccess
    /\ vw = None
    /\ it = None
    /\ hist = None
    /\ visited = << >>
    /\ NoOther

\* array_type a(l, ..., l)
New(name, l) ==
    /\ pc = "main"
    /\ ~Alive(name)
    /\ LET a == array_ctor_lengths(order, Fill(Dimensions, l))
       IN  /\ arr'  = IF name = "arr" THEN a ELSE arr
           /\ arr2' = IF name = "arr2" THEN a ELSE arr2
           /\ \E p \in operator_new(heap) :
                 /\ data' = [data EXCEPT ![name] = p]
                 /\ heap' = heap_allocate(heap, p, a.size)
    /\ acc' = [op |-> "ctor", to |-> name, src |-> name,
               ptr |-> nullptr, old |-> nullptr]
    /\ UNCHANGED <<order, Dimensions, pc, vw, it, hist, visited,
                   order2, vw2, it2>>

\* array_type a(other)
CopyNew(name) ==
    /\ pc = "main"
    /\ ~Alive(name)
    /\ Alive(OtherName(name))
    /\ LET src   == OtherName(name)
           other == ArrayOf(src)
           crash == cloneData_reads_null(other, data[src])
           a     == IF crash THEN None ELSE array_copy_ctor(other)
       IN  /\ arr'  = IF name = "arr" THEN a ELSE arr
           /\ arr2' = IF name = "arr2" THEN a ELSE arr2
           /\ \E p \in operator_new(heap) :
                 /\ data' = IF crash THEN data ELSE [data EXCEPT ![name] = p]
                 /\ heap' = heap_allocate(heap, p, other.size)
           /\ pc' = IF crash THEN "crashed" ELSE "main"
           /\ acc' = [op |-> "copy_ctor", to |-> name, src |-> src,
                      ptr |-> data[src], old |-> nullptr]
    /\ UNCHANGED <<order, Dimensions, vw, it, hist, visited,
                   order2, vw2, it2>>

\* array_type a(std::move(other))
MoveNew(name) ==
    /\ pc = "main"
    /\ ~Alive(name)
    /\ Alive(OtherName(name))
    /\ LET src   == OtherName(name)
           other == ArrayOf(src)
           a     == array_move_ctor(other)
           b     == array_moved_from(other)
       IN  /\ arr'  = IF name = "arr" THEN a ELSE b
           /\ arr2' = IF name = "arr2" THEN a ELSE b
           /\ data' = unique_ptr_move(data, name, src)
           /\ acc' = [op |-> "move_ctor", to |-> name, src |-> src,
                      ptr |-> data[src], old |-> nullptr]
    /\ UNCHANGED <<order, Dimensions, pc, vw, it, hist, visited,
                   order2, vw2, it2, heap>>

\* a = other, and a = a: cloneData() allocates the new buffer before the
\* unique_ptr releases the old one
AssignCopy(to, src) ==
    /\ pc = "main"
    /\ Alive(to) /\ Alive(src)
    /\ LET other == ArrayOf(src)
           crash == cloneData_reads_null(other, data[src])
           a     == IF crash THEN [ArrayOf(to) EXCEPT !.lengths = other.lengths,
                                                     !.coeffs = other.coeffs,
                                                     !.size = other.size]
                    ELSE array_copy_assign(ArrayOf(to), other)
       IN  /\ arr'  = IF to = "arr" THEN a ELSE arr
           /\ arr2' = IF to = "arr2" THEN a ELSE arr2
           /\ \E p \in operator_new(heap) :
                 /\ data' = IF crash THEN data ELSE [data EXCEPT ![to] = p]
                 /\ heap' = IF crash THEN heap_allocate(heap, p, other.size)
                            ELSE operator_delete(
                                     heap_allocate(heap, p, other.size), data[to])
           /\ pc' = IF crash THEN "crashed" ELSE "main"
           /\ acc' = [op |-> "copy_assign", to |-> to, src |-> src,
                      ptr |-> data[src], old |-> data[to]]
    /\ UNCHANGED <<order, Dimensions, vw, it, hist, visited,
                   order2, vw2, it2>>

\* a = std::move(other), and a = std::move(a)
AssignMove(to, src) ==
    /\ pc = "main"
    /\ Alive(to) /\ Alive(src)
    /\ LET other    == ArrayOf(src)
           a        == array_move_assign(ArrayOf(to), other)
           b        == array_moved_from(other)
           released == [data EXCEPT ![src] = nullptr]
       IN  /\ arr'  = IF to = "arr" THEN a ELSE IF src = "arr" THEN b ELSE arr
           /\ arr2' = IF to = "arr2" THEN a ELSE IF src = "arr2" THEN b ELSE arr2
           /\ data' = unique_ptr_move(data, to, src)
           /\ heap' = operator_delete(heap, released[to])
           /\ acc' = [op |-> "move_assign", to |-> to, src |-> src,
                      ptr |-> data[src], old |-> data[to]]
    /\ UNCHANGED <<order, Dimensions, pc, vw, it, hist, visited,
                   order2, vw2, it2>>

\* the end of the scope of an array: ~unique_ptr
Destroy(name) ==
    /\ pc = "main"
    /\ Alive(name)
    /\ arr'  = IF name = "arr" THEN None ELSE arr
    /\ arr2' = IF name = "arr2" THEN None ELSE arr2
    /\ heap' = operator_delete(heap, data[name])
    /\ data' = [data EXCEPT ![name] = nullptr]
    /\ acc' = [op |-> "destroy", to |-> name, src |-> name,
               ptr |-> data[name], old |-> data[name]]
    /\ UNCHANGED <<order, Dimensions, pc, vw, it, hist, visited,
                   order2, vw2, it2>>

NextOwn ==
    \/ \E name \in ArrayNames, l \in 0 .. MaxLen : New(name, l)
    \/ \E name \in ArrayNames : CopyNew(name)
    \/ \E name \in ArrayNames : MoveNew(name)
    \/ \E to, src \in ArrayNames : AssignCopy(to, src)
    \/ \E to, src \in ArrayNames : AssignMove(to, src)
    \/ \E name \in ArrayNames : Destroy(name)

SpecOwn == InitOwn /\ [][NextOwn]_vars

\* the arrays that hold the pointer p
Owners(p) == {name \in ArrayNames : Alive(name) /\ data[name] = p}

C30_SizeBufferConsistency ==
    pc = "main" =>
        \A name \in ArrayNames :
            Alive(name) =>
                LET a == ArrayOf(name)
                IN  /\ a.size = Prod(a.lengths, 0, Dimensions - 1)
                    /\ a.coeffs = computeIndexCoeffs(order, a.lengths)
                    /\ a.size > 0 => data[name] # nullptr
                    /\ data[name] # nullptr =>
                          /\ data[name] \in DOMAIN heap.buffers
                          /\ heap.buffers[data[name]] = a.size
                    /\ Cardinality(DOMAIN a.dataOwner) = a.size

-----------------------------------------------------------------------------
(* A further claim about the copies of an array *)

\* C22: the lengths of an array are those it was constructed with for all
\* of its life: after it has been the source or the destination of a copy
\* assignment, and after element writes, lengths() returns the tuple given
\* at construction. (acc.old is the destination as it was constructed,
\* acc.from the source.)
C22_LengthsImmutable ==
    (pc \in {"copied", "written"} /\ acc.op \in {"copy_assign", "self_assign"}) =>
        /\ ArrayOf(acc.to).lengths = acc.old.lengths
        /\ ArrayOf(acc.src).lengths = acc.from.lengths

====
